---- MODULE Spec2Model ----
(***************************************************************************)
(* Matching & Retrieval Engine of bits-sharad/messy.                       *)
(*                                                                         *)
(* RAGService (apps/ai/services/rag_service.py) with its taxonomy adapter  *)
(* MercerJobLibraryService (apps/ai/services/mercer_job_library.py), the   *)
(* embedding model and the vector index (a chromadb collection).           *)
(*                                                                         *)
(* Scores and distances are real numbers in the code; here they are        *)
(* integers in thousandths (1000 = 1.0).  Every public operation of the    *)
(* service is one action; what the call did is recorded in `last`.         *)
(*                                                                         *)
(* DocSpec: DocumentService (apps/services/document_service.py) with the   *)
(* text extraction adapter PDFService and the two MongoDB collections;    *)
(* calls are workers whose record-store operations interleave.            *)
(* ScoreSpec: the heuristic scorer, the stub matcher and the adapter in a  *)
(* build without the external library, applied to candidates and jobs.    *)
(* AppSpec: one server process, its requests for job descriptions and    *)
(* the RAGService objects its routes and services construct.              *)
(***************************************************************************)
EXTENDS Integers, Sequences, FiniteSets, TLC

\* ----------------------------------------------------------------------
\* Bounds of the model
\* ----------------------------------------------------------------------
NumJobs == 2      \* job ids are 1..NumJobs
MaxLimit == 2     \* requested limits are 1..MaxLimit
MaxExt == 2       \* longest list the external matcher hands back
VecSpace == 3     \* embedding vectors are 0..VecSpace-1
DistStep == 600   \* index distance between neighbouring vectors (0.6)
NumDocs == 2      \* source documents are 1..NumDocs
MaxProcessed == 2 \* ProcessedDocuments created in one behaviour
NumWorkers == 2   \* requests (or scripts) in flight at the same time
MaxInstances == 3 \* RAGService objects constructed in one behaviour

JobIds == 1..NumJobs
Limits == 1..MaxLimit
None == "None"
NoneNum == -1     \* Python's None where a number (or a vector) is expected

\* ----------------------------------------------------------------------
\* Sequence helpers
\* ----------------------------------------------------------------------
Take(s, n) == IF n <= 0 THEN <<>> ELSE SubSeq(s, 1, IF n < Len(s) THEN n ELSE Len(s))

Range(s) == {s[i] : i \in 1..Len(s)}

RECURSIVE SumSeq(_)
SumSeq(s) == IF s = <<>> THEN 0 ELSE Head(s) + SumSeq(Tail(s))

\* filter(None, parts): drops the empty strings (and None values)
NonEmptyParts(parts) == SelectSeq(parts, LAMBDA p : p # "" /\ p # None)

\* Variant: the sort without reverse=True.
SortDesc_no_reverse(s, field) ==
    LET n == Len(s)
        pos(i) == 1 + Cardinality({j \in 1..n :
                        \/ s[j][field] < s[i][field]
                        \/ s[j][field] = s[i][field] /\ j < i})
    IN  [p \in 1..n |-> s[CHOOSE i \in 1..n : pos(i) = p]]

\* list.sort(key=..., reverse=True): descending by the key field and stable, so an
\* element goes before another when its key is greater, or when the keys
\* are equal and it came first.
SortDesc(s, field) ==
    LET n == Len(s)
        pos(i) == 1 + Cardinality({j \in 1..n :
                        \/ s[j][field] > s[i][field]
                        \/ s[j][field] = s[i][field] /\ j < i})
    IN  [p \in 1..n |-> s[CHOOSE i \in 1..n : pos(i) = p]]

\* The same, ascending (the index orders its hits by ascending distance).
SortAsc(s, field) ==
    LET n == Len(s)
        pos(i) == 1 + Cardinality({j \in 1..n :
                        \/ s[j][field] < s[i][field]
                        \/ s[j][field] = s[i][field] /\ j < i})
    IN  [p \in 1..n |-> s[CHOOSE i \in 1..n : pos(i) = p]]

\* ----------------------------------------------------------------------
\* Data: job_data dictionaries and candidate profiles
\* ----------------------------------------------------------------------
\* str.lower() on the strings that occur
Lower(s) ==
    CASE s = "Python" -> "python"
      [] s = "Docker" -> "docker"
      [] s = "AWS" -> "aws"
      [] s = "SQL" -> "sql"
      [] s = "Senior" -> "senior"
      [] s = "Backend Engineer" -> "backend engineer"
      [] s = "Data Analyst" -> "data analyst"
      [] s = "Support Agent" -> "support agent"
      [] OTHER -> s

JobBackend == [title |-> "Backend Engineer", level |-> "senior", status |-> "published",
               required_skills |-> <<"Python", "Docker", "AWS">>]
JobAnalyst == [title |-> "Data Analyst", level |-> "mid", status |-> "draft",
               required_skills |-> <<"SQL">>]
JobSupport == [title |-> "Support Agent", level |-> "entry", status |-> "published",
               required_skills |-> <<>>]
JobBlank   == [title |-> "", level |-> "", status |-> "draft",
               required_skills |-> <<>>]

JobData == {JobBackend, JobAnalyst, JobSupport, JobBlank}

CandDev   == [skills |-> <<"Python", "Docker">>, years_of_experience |-> 6,
              desired_role |-> ""]
CandSql   == [skills |-> <<"SQL">>, years_of_experience |-> 1,
              desired_role |-> "Data Analyst"]
CandBlank == [skills |-> <<>>, years_of_experience |-> 0,
              desired_role |-> ""]

Candidates == {CandDev, CandSql, CandBlank}

\* ----------------------------------------------------------------------
\* Text and embeddings
\* ----------------------------------------------------------------------
\* A text is the sequence of its non-empty parts; "" is <<>>.
\* _create_searchable_text: title, description, skills, department, level,
\* responsibilities; absent keys default to "" and are filtered out.
_create_searchable_text(job_data) ==
    NonEmptyParts(<<job_data.title>>) \o job_data.required_skills
        \o NonEmptyParts(<<job_data.level>>)

\* _create_candidate_query: skills, experience_summary, education,
\* desired_role; absent ones are filtered out.
_create_candidate_query(candidate_profile) ==
    candidate_profile.skills \o NonEmptyParts(<<candidate_profile.desired_role>>)

\* The embedding model: a deterministic map from text to a vector.
TokenCode(tok) ==
    CASE tok = "Python" -> 1
      [] tok = "Docker" -> 1
      [] tok = "AWS" -> 1
      [] tok = "SQL" -> 1
      [] tok = "Backend Engineer" -> 0
      [] tok = "Data Analyst" -> 0
      [] tok = "Support Agent" -> 2
      [] OTHER -> 0

Encode(text) == SumSeq([i \in 1..Len(text) |-> TokenCode(text[i])]) % VecSpace

\* The index's native distance between two vectors.
Distance(a, b) == DistStep * (IF a >= b THEN a - b ELSE b - a)

\* ----------------------------------------------------------------------
\* State
\* ----------------------------------------------------------------------
VARIABLES
    rag,        \* RAGService: use_mercer, mercer_service, embedding_model, collection
    mercer,     \* MercerJobLibraryService: HAS_MERCER_LIB, job_matcher
    backend,    \* the index backend of this build: how it resolves a where key
    index,      \* the rows of the chromadb collection "jobs"
    indexed_ok, \* ids for which index_job has returned True
    pc,         \* "idle", or "returned" while a response is being handed back
    last        \* the call that has just returned: arguments, result, calls made

VARIABLES
    pdf,                 \* pdf_service module: HAS_PYPDF2, HAS_PDFPLUMBER
    docsvc,              \* DocumentService: is a rag_service attached
    job_documents,       \* MongoDB collection "job_documents", by _id
    processed_documents, \* MongoDB collection "processed_documents", in insertion order
    workers,             \* the process_document / process_all_documents calls in flight
    store_faulted        \* history: has a MongoDB operation raised

VARIABLES
    app   \* the server process: HAS_OPENAI, the OPENAI_API_KEY of its
          \* environment, the module globals _rag_service (rag_routes) and
          \* _rag_service_instance (document_routes), and the number of
          \* RAGService objects constructed so far

docvars == <<pdf, docsvc, job_documents, processed_documents, workers,
             store_faulted, app>>

vars == <<rag, mercer, backend, index, indexed_ok, pc, last, docvars>>

NoCall == [op |-> "none"]

\* ----------------------------------------------------------------------
\* Data: source documents and the calls of the document service
\* ----------------------------------------------------------------------
DocIds == 1..NumDocs
Workers == 1..NumWorkers
MissingId == 0      \* a document_id no document of job_documents has

\* The bytes a source document holds: a PDF with text, a PDF whose pages
\* carry no text, bytes that are no PDF; None when the document has neither
\* "content" nor "file_content".  The adapter is also handed a PDF that
\* PyPDF2 reads and pdfplumber cannot open, and a PDF with one page whose
\* extract_text() raises.
PdfBytes == {"text_pdf", "image_pdf", "corrupt", "legacy_pdf", "bad_page_pdf"}

\* What a source document can hold: documents with an odd _id a PDF with
\* text or broken bytes, those with an even _id a PDF without text or
\* nothing.
Contents(d) == IF d % 2 = 1 THEN {"text_pdf", "corrupt"} ELSE {"image_pdf", None}

\* The text of the pages of a PDF
PdfText(pdf_content) ==
    IF pdf_content \in {"text_pdf", "legacy_pdf", "bad_page_pdf"}
    THEN <<"Python", "SQL">> ELSE <<>>

\* The pages of a PDF as page.extract_text() meets them: "text" for a page
\* with text, "blank" for a page without, "raises" for a page on which the
\* call raises.
PdfPages(pdf_content) ==
    CASE pdf_content = "text_pdf" -> <<"text", "text">>
      [] pdf_content = "legacy_pdf" -> <<"text", "text">>
      [] pdf_content = "image_pdf" -> <<"blank", "blank">>
      [] pdf_content = "bad_page_pdf" -> <<"text", "raises", "text">>
      [] OTHER -> <<>>

IsPageNumber(i) == i # 0

\* if page_text: full_text.append(f"--- Page {i + 1} ---\n{page_text}"):
\* the numbers of the pages whose marker the text carries.
PageMarkers(pages) ==
    SelectSeq([i \in 1..Len(pages) |-> IF pages[i] = "text" THEN i ELSE 0],
              IsPageNumber)

\* A document of job_documents that has not been processed
SourceDocument(d, content) ==
    [_id |-> d, content |-> content, job_id |-> ((d - 1) % NumJobs) + 1,
     processed |-> FALSE, processed_document_id |-> NoneNum]

\* A processed_doc that has not been built
NoRecord == [_id |-> NoneNum, original_document_id |-> NoneNum, job_id |-> NoneNum,
             extracted_text |-> <<>>, embedding |-> NoneNum, status |-> ""]

\* The result dictionary of process_document; error "" stands for no
\* "error" key, processed_document_id NoneNum for no such key.
NoResult == [success |-> FALSE, error |-> "", processed_document_id |-> NoneNum,
             has_embedding |-> FALSE]

\* The `results` dictionary of process_all_documents before the query
NoBatch == [selected |-> <<>>, queue |-> <<>>, total |-> 0, processed |-> 0,
            failed |-> 0, results |-> <<>>, returned |-> <<>>, success |-> TRUE]

IdleWorker == [op |-> "none", pc |-> "idle", document_id |-> MissingId,
               job_id |-> NoneNum, generate_embeddings |-> FALSE,
               extracted |-> FALSE, fault |-> "none", faulted |-> FALSE,
               raised |-> FALSE, markers |-> <<>>,
               held |-> NoRecord, result |-> NoResult, batch |-> NoBatch]

\* The process before its first request: both module globals are None and
\* no RAGService has been constructed.
AppAtStart(has_openai, api_key) ==
    [HAS_OPENAI |-> has_openai, OPENAI_API_KEY |-> api_key,
     _rag_service |-> 0, _rag_service_instance |-> 0, constructed |-> 0]

\* The document service before its first call
DocumentsAtRest ==
    /\ processed_documents = <<>>
    /\ workers = [w \in Workers |-> IdleWorker]
    /\ store_faulted = FALSE

\* RAGService.__init__: the Mercer service is attached iff use_mercer stays
\* true; the embedding model and the collection are set together, and an
\* exception while loading either leaves both unusable.
\* MercerJobLibraryService.__init__: a job_matcher exists only when the
\* external library was imported and initialised.
Init ==
    /\ rag \in {r \in [use_mercer : BOOLEAN, mercer_service : BOOLEAN,
                       embedding_model : BOOLEAN, collection : BOOLEAN] :
                   /\ r.use_mercer = r.mercer_service
                   /\ r.embedding_model = r.collection}
    /\ mercer \in {m \in [HAS_MERCER_LIB : BOOLEAN, job_matcher : BOOLEAN] :
                   /\ m.job_matcher => m.HAS_MERCER_LIB
                   /\ ~rag.mercer_service => (~m.HAS_MERCER_LIB /\ ~m.job_matcher)}
    /\ backend \in [where_by_field : BOOLEAN]
    /\ index = <<>>
    /\ indexed_ok = {}
    /\ pc = "idle"
    /\ last = NoCall
    /\ pdf = [HAS_PYPDF2 |-> TRUE, HAS_PDFPLUMBER |-> TRUE]
    /\ docsvc = [rag_service |-> FALSE]
    /\ job_documents = [d \in DocIds |-> SourceDocument(d, "text_pdf")]
    /\ DocumentsAtRest
    /\ app = AppAtStart(FALSE, FALSE)

\* ----------------------------------------------------------------------
\* Embedding client
\* ----------------------------------------------------------------------
\* embedding_model.encode(text, normalize_embeddings=True): the vector, or
\* an exception when the model call fails.
model_encode(text, fault) ==
    IF fault = "encode" THEN [exc |-> TRUE, vec |-> NoneNum]
    ELSE [exc |-> FALSE, vec |-> Encode(text)]

\* try: return embedding.tolist()  except Exception: return None
EmbeddingOrNone(enc) ==
    IF enc.exc THEN [raised |-> FALSE, vec |-> NoneNum]
    ELSE [raised |-> FALSE, vec |-> enc.vec]

\* Variant: no check that a model is loaded.
generate_embedding_no_guard(self, text, fault) ==
    IF text = <<>>
    THEN [raised |-> FALSE, vec |-> NoneNum]
    ELSE EmbeddingOrNone(model_encode(text, fault))

generate_embedding(self, text, fault) ==
    IF ~self.embedding_model \/ text = <<>>
    THEN [raised |-> FALSE, vec |-> NoneNum]
    ELSE EmbeddingOrNone(model_encode(text, fault))

\* ----------------------------------------------------------------------
\* Vector index client
\* ----------------------------------------------------------------------
\* collection.add(ids, embeddings, documents, metadatas).  chromadb's add
\* does not replace: for an id that is already stored it either raises
\* (DuplicateIDError) or leaves the stored row as it is, depending on the
\* release; the backend can also fail outright.
collection_add(rows, row, fault) ==
    IF fault = "add" THEN [exc |-> TRUE, rows |-> rows]
    ELSE IF \E i \in 1..Len(rows) : rows[i].id = row.id
         THEN [exc |-> (fault = "dup_raises"), rows |-> rows]
         ELSE [exc |-> FALSE, rows |-> SortAsc(Append(rows, row), "id")]

\* The row index_job hands to collection.add
JobRow(job_id, job_data, searchable_text, embedding) ==
    [id |-> job_id, embedding |-> embedding, document |-> searchable_text,
     metadata |-> [job_id |-> job_id, title |-> job_data.title,
                   level |-> job_data.level, status |-> job_data.status,
                   skills |-> job_data.required_skills]]

\* Variant: a failed add is not reported.
AddResult_ignores_failure(rows, added) ==
    [raised |-> FALSE, ok |-> TRUE, rows |-> added.rows]

\* return True after the add; except Exception: return False
AddResult(rows, added) ==
    IF added.exc
    THEN [raised |-> FALSE, ok |-> FALSE, rows |-> rows]
    ELSE [raised |-> FALSE, ok |-> TRUE, rows |-> added.rows]

\* index_job from the embedding on: no embedding, no row.
StoreJob(rows, job_id, job_data, searchable_text, embedding, fault) ==
    IF embedding = NoneNum
    THEN [raised |-> FALSE, ok |-> FALSE, rows |-> rows]
    ELSE AddResult(rows, collection_add(rows,
                       JobRow(job_id, job_data, searchable_text, embedding), fault))

\* index_job from the searchable text on.
IndexText(self, rows, job_id, job_data, searchable_text, fault) ==
    StoreJob(rows, job_id, job_data, searchable_text,
             generate_embedding(self, searchable_text, fault).vec, fault)

index_job(self, rows, job_id, job_data, fault) ==
    IF ~self.collection \/ ~self.embedding_model
    THEN [raised |-> FALSE, ok |-> FALSE, rows |-> rows]
    ELSE IndexText(self, rows, job_id, job_data,
                   _create_searchable_text(job_data), fault)

\* A where clause is a set of <<key, value>> pairs.  search_similar_jobs
\* writes every key as "metadata.<k>", here <<"metadata", k>>.
WhereOf(filters) == {<<<<"metadata", f[1]>>, f[2]>> : f \in filters}

\* chromadb looks a where key up among the names of a row's metadata
\* fields.  Whether the dotted key "metadata.<k>" reaches field <k> is a
\* property of the backend; when it does not, no row has such a field.
MetaLookup(metadata, key, be) ==
    IF be.where_by_field /\ key[1] = "metadata" /\ key[2] \in DOMAIN metadata
    THEN metadata[key[2]]
    ELSE None

RowMatches(row, where, be) ==
    \A w \in where : MetaLookup(row.metadata, w[1], be) = w[2]

\* The rows as hits, each with its distance to the query vector.
WithDistance(matching, query_embedding) ==
    [i \in 1..Len(matching) |->
        [id |-> matching[i].id,
         distance |-> Distance(query_embedding, matching[i].embedding),
         metadata |-> matching[i].metadata,
         document |-> matching[i].document]]

\* collection.query(query_embeddings, n_results, where): the n_results rows
\* nearest to the query among those matching where, nearest first.
collection_query(rows, query_embedding, n_results, where, be, fault) ==
    IF fault = "query" \/ n_results <= 0
    THEN [exc |-> TRUE, hits |-> <<>>]
    ELSE [exc |-> FALSE,
          hits |-> Take(SortAsc(WithDistance(
                            SelectSeq(rows, LAMBDA r : RowMatches(r, where, be)),
                            query_embedding), "distance"), n_results)]

\* Variant: the distance itself is reported as the score.
Similarity_raw_distance(distance) == distance

\* "score": 1 - results["distances"][0][i]
Similarity(distance) == 1000 - distance

\* The loop that formats the query results.
FormatMatches(hits) ==
    [i \in 1..Len(hits) |->
        [job_id |-> hits[i].id, score |-> Similarity(hits[i].distance),
         metadata |-> hits[i].metadata, document |-> hits[i].document]]

\* Variant: no except clause around the index query.
SearchResult_no_except(results) ==
    [raised |-> results.exc, matches |-> FormatMatches(results.hits),
     calls |-> <<"embedding", "index_query">>]

\* return matches; except Exception: return []
SearchResult(results) ==
    IF results.exc
    THEN [raised |-> FALSE, matches |-> <<>>, calls |-> <<"embedding", "index_query">>]
    ELSE [raised |-> FALSE, matches |-> FormatMatches(results.hits),
          calls |-> <<"embedding", "index_query">>]

\* search_similar_jobs from the query embedding on.
SearchWith(rows, be, query_embedding, limit, filters, fault) ==
    IF query_embedding = NoneNum
    THEN [raised |-> FALSE, matches |-> <<>>, calls |-> <<"embedding">>]
    ELSE SearchResult(collection_query(rows, query_embedding, limit,
                          IF filters # {} THEN WhereOf(filters) ELSE {}, be, fault))

search_similar_jobs(self, rows, be, query, limit, filters, fault) ==
    IF ~self.collection \/ ~self.embedding_model
    THEN [raised |-> FALSE, matches |-> <<>>, calls |-> <<>>]
    ELSE SearchWith(rows, be, generate_embedding(self, query, fault).vec,
                    limit, filters, fault)

\* ----------------------------------------------------------------------
\* Taxonomy matcher adapter (MercerJobLibraryService)
\* ----------------------------------------------------------------------
\* The record store read by JobService.list_all_jobs.
StoredJob(j, d) ==
    [id |-> j, title |-> d.title, level |-> d.level, status |-> d.status,
     required_skills |-> d.required_skills]

JobStore ==
    [j \in JobIds |->
        StoredJob(j, IF j = 1 THEN JobBackend ELSE IF j = 2 THEN JobAnalyst ELSE JobSupport)]

\* JobService.list_all_jobs is declared `async def`: a call that is not
\* awaited yields a coroutine object, not the dictionary it would return.
list_all_jobs(store, skip, limit) ==
    [kind |-> "coroutine",
     value |-> [jobs |-> Take(SubSeq(store, skip + 1, Len(store)), limit)]]

LowerSet(strs) == {Lower(strs[i]) : i \in 1..Len(strs)}

\* str.split() of the lower-cased titles and roles that occur
Words(s) ==
    CASE s = "backend engineer" -> {"backend", "engineer"}
      [] s = "data analyst" -> {"data", "analyst"}
      [] s = "support agent" -> {"support", "agent"}
      [] s = "" -> {}
      [] OTHER -> {s}

\* round(x, 3) of the rational num/den, in thousandths
RoundMilli(num, den) == (2 * 1000 * num + den) \div (2 * den)

\* level_score, in tenths
\* Variant: the thresholds of the stub's level bonus, as a penalty.
level_score_bonus_thresholds(job_level, candidate_experience) ==
    IF job_level = "" THEN 10
    ELSE IF job_level = "senior" /\ candidate_experience < 5 THEN 6
    ELSE IF job_level = "mid" /\ ~(2 <= candidate_experience /\ candidate_experience < 5) THEN 7
    ELSE IF job_level = "entry" /\ candidate_experience >= 2 THEN 8
    ELSE 10

level_score(job_level, candidate_experience) ==
    IF job_level = "" THEN 10
    ELSE IF job_level = "senior" /\ candidate_experience < 5 THEN 6
    ELSE IF job_level = "mid" /\ candidate_experience < 2 THEN 7
    ELSE IF job_level = "entry" /\ candidate_experience > 5 THEN 8
    ELSE 10

\* Variant: the overlap is divided by the number of candidate skills.
skill_score_over_candidate(candidate_skills, job_skills) ==
    <<Cardinality(candidate_skills \cap job_skills),
      IF candidate_skills # {} THEN Cardinality(candidate_skills) ELSE 1>>

\* skill_score as <<skill_overlap, total_skills>>
skill_score(candidate_skills, job_skills) ==
    <<Cardinality(candidate_skills \cap job_skills),
      IF job_skills # {} THEN Cardinality(job_skills) ELSE 1>>

\* title_score as <<numerator, denominator>>; 1/1 without a desired role
title_score(title_words, job_words) ==
    IF title_words = {} THEN <<1, 1>>
    ELSE <<Cardinality(title_words \cap job_words), Cardinality(title_words)>>

\* Variant: the three parts weigh the same.
WeightedScore_equal_weights(skill, lvl, title) ==
    RoundMilli(10 * skill[1] * title[2] + lvl * skill[2] * title[2]
                   + 10 * title[1] * skill[2],
               30 * skill[2] * title[2])

\* match_score = skill_score*0.5 + level_score*0.3 + title_score*0.2,
\* rounded to three places
WeightedScore(skill, lvl, title) ==
    RoundMilli(50 * skill[1] * title[2] + 3 * lvl * skill[2] * title[2]
                   + 20 * title[1] * skill[2],
               100 * skill[2] * title[2])

heuristic_score(candidate_profile, job) ==
    WeightedScore(
        skill_score(LowerSet(candidate_profile.skills), LowerSet(job.required_skills)),
        level_score(Lower(job.level), candidate_profile.years_of_experience),
        title_score(Words(Lower(candidate_profile.desired_role)),
                    Words(Lower(job.title))))

\* The jobs _fallback_match scores: those in job_ids (if given) that are
\* published.
JobsToScore(jobs, job_ids) ==
    SelectSeq(jobs, LAMBDA j : (job_ids = {} \/ j.id \in job_ids)
                                  /\ j.status = "published")

ScoreJobs(candidate_profile, jobs) ==
    [i \in 1..Len(jobs) |->
        [job_id |-> jobs[i].id,
         match_score |-> heuristic_score(candidate_profile, jobs[i])]]

\* _fallback_match from all_jobs_result on.  all_jobs_result.get raises
\* AttributeError unless all_jobs_result is a dictionary, and the
\* enclosing except turns that into [].
FallbackFrom(all_jobs_result, candidate_profile, job_ids, limit) ==
    IF all_jobs_result.kind # "dict"
    THEN <<>>
    ELSE Take(SortDesc(ScoreJobs(candidate_profile,
                  JobsToScore(all_jobs_result.value.jobs, job_ids)), "match_score"),
              limit)

\* _fallback_match: the heuristic scorer, over the result of the
\* un-awaited list_all_jobs.
_fallback_match(candidate_profile, job_ids, limit) ==
    FallbackFrom(list_all_jobs(JobStore, 0, 100), candidate_profile, job_ids, limit)

\* What the external job_matcher.match (with the library's job lookup) can
\* do: raise, hand back something that is not a list of dicts, hand back a
\* ranked list, or a list whose score is None.
ExtScores == {500, 900}
ExtMatch == [job_id : JobIds, match_score : ExtScores]

RankedLists ==
    {l \in UNION {[1..n -> ExtMatch] : n \in 0..MaxExt} :
        /\ \A i, j \in 1..Len(l) : i < j => l[i].match_score >= l[j].match_score
        /\ \A i, j \in 1..Len(l) : i # j => l[i].job_id # l[j].job_id}

NoOutcome == [kind |-> "raise", list |-> <<>>]

MatcherOutcomes ==
    {NoOutcome, [kind |-> "malformed", list |-> <<>>],
     [kind |-> "list", list |-> <<[job_id |-> 1, match_score |-> NoneNum]>>]}
        \cup {[kind |-> "list", list |-> l] : l \in RankedLists}

\* MercerJobLibraryService.match_candidate_to_jobs
mercer_match_candidate_to_jobs(svc, candidate_profile, job_ids, limit, outcome) ==
    IF svc.HAS_MERCER_LIB /\ svc.job_matcher /\ outcome.kind = "list"
    THEN [results |-> outcome.list, calls |-> <<"external_matcher">>]
    ELSE [results |-> _fallback_match(candidate_profile, job_ids, limit),
          calls |-> IF svc.HAS_MERCER_LIB /\ svc.job_matcher
                    THEN <<"external_matcher", "heuristic">>   \* except: fall back
                    ELSE <<"heuristic">>]

\* ----------------------------------------------------------------------
\* Match scoring engine (RAGService.match_candidate_to_jobs)
\* ----------------------------------------------------------------------
\* Variant: the per-call use_mercer argument is ignored.
should_use_mercer_ignores_argument(self, use_mercer) ==
    self.use_mercer /\ self.mercer_service

should_use_mercer(self, use_mercer) ==
    /\ IF use_mercer # None THEN use_mercer = "True" ELSE self.use_mercer
    /\ self.mercer_service

NoTier == [ran |-> FALSE, raised |-> FALSE, matches |-> <<>>, results |-> <<>>,
           calls |-> <<>>]

MercerToMatchResults(matches) ==
    [i \in 1..Len(matches) |->
        [job_id |-> matches[i].job_id, match_score |-> matches[i].match_score]]

\* The conversion of the Mercer matches to MatchResults.  Formatting a
\* score that is None raises, and the except clause falls through.
ConvertMercer(mercer_matches) ==
    IF \E i \in 1..Len(mercer_matches.results) :
          mercer_matches.results[i].match_score = NoneNum
    THEN [ran |-> TRUE, raised |-> TRUE, matches |-> mercer_matches.results,
          results |-> <<>>, calls |-> <<"taxonomy">> \o mercer_matches.calls]
    ELSE [ran |-> TRUE, raised |-> FALSE, matches |-> mercer_matches.results,
          results |-> MercerToMatchResults(mercer_matches.results),
          calls |-> <<"taxonomy">> \o mercer_matches.calls]

\* The `try` block around the Mercer call.
taxonomy_tier(svc, candidate_profile, job_ids, limit, outcome) ==
    ConvertMercer(mercer_match_candidate_to_jobs(svc, candidate_profile, job_ids,
                                                 limit, outcome))

\* if job_ids and match["job_id"] not in job_ids: continue
KeepWanted(matches, job_ids) ==
    SelectSeq(matches, LAMBDA m : ~(job_ids # {} /\ m.job_id \notin job_ids))

HitsToMatchResults(kept) ==
    [i \in 1..Len(kept) |-> [job_id |-> kept[i].job_id, match_score |-> kept[i].score]]

\* Variant: neither slice to limit is applied.
RankSemantic_uncapped(found, job_ids, limit) ==
    [ran |-> TRUE, raised |-> FALSE, matches |-> found.matches,
     results |-> SortDesc(HitsToMatchResults(KeepWanted(found.matches, job_ids)),
                          "match_score"),
     calls |-> <<"semantic">> \o found.calls]

\* The RAG path after the search: keep the first limit hits, drop those
\* outside job_ids, sort by score and cut to limit.
RankSemantic(found, job_ids, limit) ==
    IF found.raised        \* except Exception: return []
    THEN [ran |-> TRUE, raised |-> FALSE, matches |-> <<>>, results |-> <<>>,
          calls |-> <<"semantic">> \o found.calls]
    ELSE [ran |-> TRUE, raised |-> FALSE, matches |-> found.matches,
          results |-> Take(SortDesc(HitsToMatchResults(
                               KeepWanted(Take(found.matches, limit), job_ids)),
                               "match_score"), limit),
          calls |-> <<"semantic">> \o found.calls]

\* The `try` block of the RAG path: query the index for 2*limit published
\* jobs and rank them.
semantic_tier(self, rows, be, candidate_profile, job_ids, limit, fault) ==
    RankSemantic(search_similar_jobs(self, rows, be,
                     _create_candidate_query(candidate_profile), limit * 2,
                     {<<"status", "published">>}, fault),
                 job_ids, limit)

\* Variant: the Mercer results are built but not returned.
ReturnOrFallThrough_no_return(self, limit, tax, sem) ==
    IF ~self.collection \/ ~self.embedding_model
    THEN [raised |-> FALSE, results |-> <<>>,
          tax |-> tax, sem |-> NoTier, calls |-> tax.calls]
    ELSE [raised |-> FALSE, results |-> sem.results,
          tax |-> tax, sem |-> sem, calls |-> tax.calls \o sem.calls]

\* The control flow of match_candidate_to_jobs: return the Mercer results
\* if there are any; otherwise return [] without a collection or a model,
\* and the RAG results with them.
ReturnOrFallThrough(self, limit, tax, sem) ==
    IF tax.ran /\ ~tax.raised /\ tax.results # <<>>
    THEN [raised |-> FALSE, results |-> Take(tax.results, limit),
          tax |-> tax, sem |-> NoTier, calls |-> tax.calls]
    ELSE IF ~self.collection \/ ~self.embedding_model
         THEN [raised |-> FALSE, results |-> <<>>,
               tax |-> tax, sem |-> NoTier, calls |-> tax.calls]
         ELSE [raised |-> FALSE, results |-> sem.results,
               tax |-> tax, sem |-> sem, calls |-> tax.calls \o sem.calls]

match_candidate_to_jobs(self, svc, rows, be, candidate_profile, job_ids, limit, use_mercer, outcome, fault) ==
    ReturnOrFallThrough(self, limit,
        IF should_use_mercer(self, use_mercer)
        THEN taxonomy_tier(svc, candidate_profile, job_ids, limit, outcome)
        ELSE NoTier,
        IF self.collection /\ self.embedding_model
        THEN semantic_tier(self, rows, be, candidate_profile, job_ids, limit, fault)
        ELSE NoTier)

\* ----------------------------------------------------------------------
\* Actions: one per public operation, and the hand-back of its response
\* ----------------------------------------------------------------------
Texts == {<<>>} \cup {_create_candidate_query(c) : c \in Candidates}
              \cup {_create_searchable_text(d) : d \in JobData}
Queries == {_create_candidate_query(c) : c \in Candidates}
FilterSets == {{}, {<<"status", "published">>}, {<<"level", "senior">>}}
JobIdFilters == {{}} \cup {{j} : j \in JobIds}
UseMercerArgs == {None, "True", "False"}

GenerateEmbedding ==
    /\ pc = "idle"
    /\ \E text \in Texts, fault \in {"none", "encode"} :
         LET r == generate_embedding(rag, text, fault)
         IN  last' = [op |-> "generate_embedding", text |-> text, fault |-> fault,
                      raised |-> r.raised, vec |-> r.vec]
    /\ pc' = "returned"
    /\ UNCHANGED <<rag, mercer, backend, index, indexed_ok, docvars>>

IndexJob ==
    /\ pc = "idle"
    /\ \E job_id \in JobIds, job_data \in JobData,
          fault \in {"none", "encode", "add", "dup_raises"} :
         LET r == index_job(rag, index, job_id, job_data, fault)
         IN  /\ index' = r.rows
             /\ indexed_ok' = IF r.ok THEN indexed_ok \cup {job_id} ELSE indexed_ok
             /\ last' = [op |-> "index_job", job_id |-> job_id, job_data |-> job_data,
                         fault |-> fault, rows_before |-> index,
                         raised |-> r.raised, ok |-> r.ok]
    /\ pc' = "returned"
    /\ UNCHANGED <<rag, mercer, backend, docvars>>

SearchSimilarJobs ==
    /\ pc = "idle"
    /\ \E query \in Queries, limit \in Limits, filters \in FilterSets,
          fault \in {"none", "encode", "query"} :
         LET r == search_similar_jobs(rag, index, backend, query, limit, filters, fault)
         IN  last' = [op |-> "search_similar_jobs", query |-> query, limit |-> limit,
                      filters |-> filters, fault |-> fault, raised |-> r.raised,
                      matches |-> r.matches, calls |-> r.calls]
    /\ pc' = "returned"
    /\ UNCHANGED <<rag, mercer, backend, index, indexed_ok, docvars>>

\* SemanticSearchResultResponse: score: float = Field(..., ge=0.0, le=1.0);
\* constructing the response model with any other score raises a
\* ValidationError.
ScoreIsValid(score) == score >= 0 /\ score <= 1000

SemanticSearchResultResponse(result) ==
    [job_id |-> result.job_id, score |-> result.score,
     title |-> result.metadata.title, level |-> result.metadata.level]

\* The route's conversion of the hits: the list of response models, or the
\* HTTPException of the except clause when building one of them raises.
SearchResponse(results) ==
    IF \E i \in 1..Len(results) : ~ScoreIsValid(results[i].score)
    THEN [status_code |-> 500, body |-> <<>>]
    ELSE [status_code |-> 200,
          body |-> [i \in 1..Len(results) |-> SemanticSearchResultResponse(results[i])]]

\* POST /api/v1/ai/jobs/search-semantic
semantic_job_search(rag_service, rows, be, query, limit, filters, fault) ==
    SearchResponse(search_similar_jobs(rag_service, rows, be, query, limit,
                                       filters, fault).matches)

SemanticJobSearch ==
    /\ pc = "idle"
    /\ \E query \in Queries, limit \in Limits, filters \in FilterSets,
          fault \in {"none", "encode", "query"} :
         LET r == search_similar_jobs(rag, index, backend, query, limit, filters, fault)
         IN  last' = [op |-> "semantic_job_search", query |-> query, limit |-> limit,
                      filters |-> filters, fault |-> fault, raised |-> r.raised,
                      matches |-> r.matches, calls |-> r.calls,
                      response |-> semantic_job_search(rag, index, backend, query,
                                                       limit, filters, fault)]
    /\ pc' = "returned"
    /\ UNCHANGED <<rag, mercer, backend, index, indexed_ok, docvars>>

\* The outcome of the external matcher makes the taxonomy tier answer, so
\* that the embedding model and the index are not consulted.
TaxonomyAnswers(self, svc, use_mercer, outcome) ==
    /\ should_use_mercer(self, use_mercer)
    /\ svc.job_matcher
    /\ outcome.kind = "list"
    /\ outcome.list # <<>>
    /\ \A i \in 1..Len(outcome.list) : outcome.list[i].match_score # NoneNum

\* The response record of a match_candidate_to_jobs call.
MatchCall(candidate_profile, job_ids, limit, use_mercer, outcome, fault, r) ==
    [op |-> "match_candidate_to_jobs",
     candidate_profile |-> candidate_profile, job_ids |-> job_ids,
     limit |-> limit, use_mercer |-> use_mercer,
     outcome |-> outcome, fault |-> fault, raised |-> r.raised,
     results |-> r.results, tax |-> r.tax, sem |-> r.sem, calls |-> r.calls]

\* The external matcher's outcome is drawn only when the matcher is
\* consulted, a fault of the model or the index only when they are.
MatchCandidateToJobs ==
    /\ pc = "idle"
    /\ \E candidate_profile \in Candidates, job_ids \in JobIdFilters, limit \in Limits,
          use_mercer \in UseMercerArgs, outcome \in MatcherOutcomes,
          fault \in {"none", "encode", "query"} :
         /\ (should_use_mercer(rag, use_mercer) /\ mercer.job_matcher)
               \/ outcome = NoOutcome
         /\ (rag.collection /\ ~TaxonomyAnswers(rag, mercer, use_mercer, outcome))
               \/ fault = "none"
         /\ last' = MatchCall(candidate_profile, job_ids, limit, use_mercer, outcome,
                              fault,
                              match_candidate_to_jobs(rag, mercer, index, backend,
                                  candidate_profile, job_ids, limit, use_mercer,
                                  outcome, fault))
    /\ pc' = "returned"
    /\ UNCHANGED <<rag, mercer, backend, index, indexed_ok, docvars>>

\* The route handler hands the response to its client.
Respond ==
    /\ pc = "returned"
    /\ pc' = "idle"
    /\ last' = NoCall
    /\ UNCHANGED <<rag, mercer, backend, index, indexed_ok, docvars>>

Next ==
    \/ GenerateEmbedding
    \/ IndexJob
    \/ SearchSimilarJobs
    \/ SemanticJobSearch
    \/ MatchCandidateToJobs
    \/ Respond

Spec == Init /\ [][Next]_vars

\* ----------------------------------------------------------------------
\* Text extraction adapter (PDFService, apps/services/pdf_service.py)
\* ----------------------------------------------------------------------
\* The error dictionary of the except clauses
ExtractionError(error) ==
    [raised |-> FALSE, success |-> FALSE, error |-> error, content |-> <<>>,
     method |-> "", markers |-> <<>>]

\* PDF(pdf_file) raises on bytes pdfplumber cannot open; the page loop has
\* no try of its own, so a page that raises ends in the except clause of
\* the method.
_extract_with_pdfplumber(pdf_content) ==
    IF pdf_content \in {"corrupt", "legacy_pdf"}
    THEN ExtractionError("pdfplumber: no PDF")
    ELSE IF \E i \in 1..Len(PdfPages(pdf_content)) :
                PdfPages(pdf_content)[i] = "raises"
         THEN ExtractionError("pdfplumber: page")
         ELSE [raised |-> FALSE, success |-> TRUE, error |-> "",
               content |-> PdfText(pdf_content), method |-> "pdfplumber",
               markers |-> PageMarkers(PdfPages(pdf_content))]

\* PdfReader(pdf_file) raises on bytes that are no PDF; the page loop
\* catches what a page raises and goes on with the next page.
_extract_with_pypdf2(pdf_content) ==
    IF pdf_content = "corrupt"
    THEN ExtractionError("PyPDF2: no PDF")
    ELSE [raised |-> FALSE, success |-> TRUE, error |-> "",
          content |-> PdfText(pdf_content), method |-> "PyPDF2",
          markers |-> PageMarkers(PdfPages(pdf_content))]

\* The ImportError for the case that neither library is installed is
\* raised before the try block is entered.
extract_text_from_pdf(libs, pdf_path, use_advanced) ==
    IF ~libs.HAS_PYPDF2 /\ ~libs.HAS_PDFPLUMBER
    THEN [raised |-> TRUE, success |-> FALSE, error |-> "ImportError",
          content |-> <<>>, method |-> "", markers |-> <<>>]
    ELSE IF use_advanced /\ libs.HAS_PDFPLUMBER
         THEN _extract_with_pdfplumber(pdf_path)
         ELSE IF libs.HAS_PYPDF2
              THEN _extract_with_pypdf2(pdf_path)
              ELSE ExtractionError("No PDF processing library available")

extract_text_from_bytes(libs, pdf_bytes, use_advanced) ==
    extract_text_from_pdf(libs, pdf_bytes, use_advanced)

\* ----------------------------------------------------------------------
\* Document ingestion (DocumentService, apps/services/document_service.py)
\* ----------------------------------------------------------------------
\* {"success": False, "error": ...}
Failure(error) ==
    [success |-> FALSE, error |-> error, processed_document_id |-> NoneNum,
     has_embedding |-> FALSE]

\* The dictionary returned after both writes
Success(processed_doc) ==
    [success |-> TRUE, error |-> "", processed_document_id |-> processed_doc._id,
     has_embedding |-> (processed_doc.embedding # NoneNum)]

\* process_document stops before a processed_doc is built
Stopped(error, extracted) ==
    [ok |-> FALSE, extracted |-> extracted, result |-> Failure(error),
     held |-> NoRecord]

\* embedding = None; if generate_embeddings and self.rag_service: try the
\* embedding, and only warn when it raises.
EmbeddingFor(self, ragsvc, generate_embeddings, extracted_text, fault) ==
    IF generate_embeddings /\ self.rag_service
    THEN IF fault = "embed_raise" THEN NoneNum
         ELSE generate_embedding(ragsvc, extracted_text, fault).vec
    ELSE NoneNum

\* processed_doc; job_id or document.get("job_id")
ProcessedDoc(oid, document, job_id, extracted_text, embedding) ==
    [_id |-> oid, original_document_id |-> document._id,
     job_id |-> IF job_id # NoneNum THEN job_id ELSE document.job_id,
     extracted_text |-> extracted_text, embedding |-> embedding,
     status |-> "processed"]

\* Variant: without an embedding the call fails.
BuildRecord_requires_embedding(oid, document, job_id, extracted_text, embedding) ==
    IF embedding = NoneNum
    THEN Stopped("embedding failed", TRUE)
    ELSE [ok |-> TRUE, extracted |-> TRUE, result |-> NoResult,
          held |-> ProcessedDoc(oid, document, job_id, extracted_text, embedding)]

\* process_document once the embedding step is over: the processed_doc is
\* built whether or not there is an embedding.
BuildRecord(oid, document, job_id, extracted_text, embedding) ==
    [ok |-> TRUE, extracted |-> TRUE, result |-> NoResult,
     held |-> ProcessedDoc(oid, document, job_id, extracted_text, embedding)]

\* Variant: the result of the extraction is not looked at.
AfterExtraction_unchecked(self, ragsvc, document, job_id, generate_embeddings, oid, pdf_result, fault) ==
    BuildRecord(oid, document, job_id, pdf_result.content,
                EmbeddingFor(self, ragsvc, generate_embeddings,
                             pdf_result.content, fault))

\* process_document from pdf_result on.  An exception of the extraction
\* is caught by the except clause of process_document.
AfterExtraction(self, ragsvc, document, job_id, generate_embeddings, oid, pdf_result, fault) ==
    IF pdf_result.raised
    THEN Stopped("exception", FALSE)
    ELSE IF ~pdf_result.success
         THEN Stopped("PDF extraction failed", FALSE)
         ELSE BuildRecord(oid, document, job_id, pdf_result.content,
                          EmbeddingFor(self, ragsvc, generate_embeddings,
                                       pdf_result.content, fault))

\* process_document from the fetched document on
ReadDocument(self, libs, ragsvc, document, job_id, generate_embeddings, oid, fault) ==
    IF document.content = None
    THEN Stopped("No PDF content found in document", FALSE)
    ELSE AfterExtraction(self, ragsvc, document, job_id, generate_embeddings, oid,
                         extract_text_from_bytes(libs, document.content, TRUE), fault)

\* process_document up to the first write: find_one, the extraction, the
\* embedding and the processed_doc.
FetchAndBuild(self, libs, ragsvc, documents, document_id, job_id, generate_embeddings, oid, fault) ==
    IF fault = "find"
    THEN Stopped("exception", FALSE)
    ELSE IF document_id \notin DOMAIN documents
         THEN Stopped("Document not found", FALSE)
         ELSE ReadDocument(self, libs, ragsvc, documents[document_id], job_id,
                           generate_embeddings, oid, fault)

\* collection.find({"processed": {"$ne": True}} [, "job_id": job_id])
Unprocessed(documents, job_id) ==
    SelectSeq([d \in 1..NumDocs |-> documents[d]],
              LAMBDA doc : ~doc.processed /\ (job_id = NoneNum \/ doc.job_id = job_id))

IdsOf(documents) == [i \in 1..Len(documents) |-> documents[i]._id]

\* Variant: a failed document gets no entry in the results list.
Tally_drops_failures(batch, doc_id, result, faulted) ==
    [batch EXCEPT
        !.processed = IF result.success THEN @ + 1 ELSE @,
        !.failed = IF result.success THEN @ ELSE @ + 1,
        !.results = IF result.success
                    THEN Append(@, [document_id |-> doc_id, success |-> TRUE,
                                    error |-> result.error])
                    ELSE @,
        !.returned = Append(@, [result |-> result, faulted |-> faulted]),
        !.queue = Tail(@)]

\* The body of the loop after process_document returned: the tally and
\* the per-item entry.  `returned` remembers what process_document gave.
Tally(batch, doc_id, result, faulted) ==
    [batch EXCEPT
        !.processed = IF result.success THEN @ + 1 ELSE @,
        !.failed = IF result.success THEN @ ELSE @ + 1,
        !.results = Append(@, [document_id |-> doc_id, success |-> result.success,
                               error |-> result.error]),
        !.returned = Append(@, [result |-> result, faulted |-> faulted]),
        !.queue = Tail(@)]

\* Variant: the loop ends at the first document that fails.
NextInBatch_stops_at_failure(wr, batch, result) ==
    [wr EXCEPT !.batch = batch, !.result = result,
               !.pc = IF batch.queue # <<>> /\ result.success THEN "item" ELSE "done"]

\* for doc in documents: on to the next document, or return results
NextInBatch(wr, batch, result) ==
    [wr EXCEPT !.batch = batch, !.result = result,
               !.pc = IF batch.queue # <<>> THEN "item" ELSE "done"]

\* process_document returns `result`: to its caller, or into the loop of
\* process_all_documents.
Finish(wr, result) ==
    IF wr.op = "process_document"
    THEN [wr EXCEPT !.pc = "done", !.result = result]
    ELSE NextInBatch(wr, Tally(wr.batch, wr.document_id, result, wr.faulted), result)

\* ----------------------------------------------------------------------
\* Actions of the document service.  Each call is a worker; a step is one
\* operation on the record store, and the steps of different calls (HTTP
\* requests, the process_documents.py script) interleave.
\* ----------------------------------------------------------------------
DocRest == <<rag, mercer, backend, index, indexed_ok, pc, last, pdf, docsvc, app>>

\* The faults that can be injected into the first step of a call
StepFaults(generate_embeddings) ==
    {"none", "find", "insert"}
        \cup (IF generate_embeddings /\ docsvc.rag_service
              THEN {"embed_raise"} ELSE {})
        \cup (IF generate_embeddings /\ docsvc.rag_service /\ rag.embedding_model
              THEN {"encode"} ELSE {})

\* ObjectId(): an id no stored record has
NewObjectId == Len(processed_documents) + 1

\* process_document by worker w up to processed_collection.insert_one.
\* What find_one reads of a source document is never written, so that the
\* steps before the first write are taken at once.
\* Variant: a failed insert_one is not noticed and the call goes on to
\* update_one.
StartDocument_insert_unchecked(w, wr, built) ==
    IF built.ok
    THEN /\ processed_documents' = IF wr.fault # "insert"
                                   THEN Append(processed_documents, built.held)
                                   ELSE processed_documents
         /\ workers' = [workers EXCEPT ![w] =
                [wr EXCEPT !.pc = "update", !.held = built.held, !.extracted = TRUE]]
         /\ UNCHANGED store_faulted
    ELSE /\ workers' = [workers EXCEPT ![w] =
                Finish([wr EXCEPT !.extracted = built.extracted,
                                  !.faulted = (wr.fault = "find")], built.result)]
         /\ store_faulted' = (store_faulted \/ wr.fault = "find")
         /\ UNCHANGED processed_documents

StartDocument(w, wr, built) ==
    IF built.ok /\ wr.fault # "insert"
    THEN /\ processed_documents' = Append(processed_documents, built.held)
         /\ workers' = [workers EXCEPT ![w] =
                [wr EXCEPT !.pc = "update", !.held = built.held, !.extracted = TRUE]]
         /\ UNCHANGED store_faulted
    ELSE /\ workers' = [workers EXCEPT ![w] =
                IF built.ok
                THEN Finish([wr EXCEPT !.extracted = TRUE, !.faulted = TRUE],
                            Failure("exception"))
                ELSE Finish([wr EXCEPT !.extracted = built.extracted,
                                       !.faulted = (wr.fault = "find")], built.result)]
         /\ store_faulted' = (store_faulted \/ wr.fault = "find" \/ built.ok)
         /\ UNCHANGED processed_documents

\* POST /api/v1/documents/process/{document_id}
ProcessDocument(w) ==
    /\ workers[w].pc = "idle"
    /\ Len(processed_documents) < MaxProcessed
    /\ \E document_id \in DocIds \cup {MissingId}, generate_embeddings \in BOOLEAN,
          fault \in {"none", "find", "insert", "embed_raise", "encode"} :
         /\ fault \in StepFaults(generate_embeddings)
         /\ StartDocument(w,
                [IdleWorker EXCEPT !.op = "process_document",
                                   !.document_id = document_id,
                                   !.generate_embeddings = generate_embeddings,
                                   !.fault = fault],
                FetchAndBuild(docsvc, pdf, rag, job_documents, document_id, NoneNum,
                              generate_embeddings, NewObjectId, fault))
    /\ UNCHANGED <<DocRest, job_documents>>

\* job_documents_collection.update_one({"_id": ...}, {"$set": {...}}) and
\* the return of the success dictionary
UpdateOne(w) ==
    /\ workers[w].pc = "update"
    /\ \/ /\ job_documents' =
                 [job_documents EXCEPT ![workers[w].document_id] =
                     [@ EXCEPT !.processed = TRUE,
                               !.processed_document_id = workers[w].held._id]]
          /\ workers' = [workers EXCEPT ![w] = Finish(workers[w], Success(workers[w].held))]
          /\ UNCHANGED store_faulted
       \/ /\ workers' = [workers EXCEPT ![w] =
                 Finish([workers[w] EXCEPT !.faulted = TRUE], Failure("exception"))]
          /\ store_faulted' = TRUE
          /\ UNCHANGED job_documents
    /\ UNCHANGED <<DocRest, processed_documents>>

\* The results dictionary process_all_documents starts with
StartBatch(documents) ==
    [NoBatch EXCEPT !.selected = IdsOf(documents), !.queue = IdsOf(documents),
                    !.total = Len(documents)]

\* POST /api/v1/documents/process-all and process_documents.py: the query
\* for the unprocessed documents
ProcessAllDocuments(w) ==
    /\ workers[w].pc = "idle"
    /\ Len(processed_documents) < MaxProcessed
    /\ \E job_id \in {NoneNum, 1} :
         \/ /\ workers' = [workers EXCEPT ![w] =
                   NextInBatch([IdleWorker EXCEPT !.op = "process_all_documents",
                                    !.job_id = job_id, !.generate_embeddings = TRUE],
                               StartBatch(Unprocessed(job_documents, job_id)), NoResult)]
            /\ UNCHANGED store_faulted
         \/ /\ workers' = [workers EXCEPT ![w] =
                   [IdleWorker EXCEPT !.op = "process_all_documents", !.pc = "done",
                                      !.job_id = job_id, !.faulted = TRUE,
                                      !.generate_embeddings = TRUE,
                                      !.batch = [NoBatch EXCEPT !.success = FALSE]]]
            /\ store_faulted' = TRUE
    /\ UNCHANGED <<DocRest, job_documents, processed_documents>>

\* The loop of process_all_documents calls process_document for the next
\* selected document.
BatchItem(w) ==
    /\ workers[w].pc = "item"
    /\ Len(processed_documents) < MaxProcessed
    /\ \E fault \in StepFaults(workers[w].generate_embeddings) :
         StartDocument(w,
             [workers[w] EXCEPT !.document_id = Head(workers[w].batch.queue),
                                !.fault = fault, !.extracted = FALSE,
                                !.faulted = FALSE, !.held = NoRecord],
             FetchAndBuild(docsvc, pdf, rag, job_documents,
                           Head(workers[w].batch.queue), workers[w].job_id,
                           workers[w].generate_embeddings, NewObjectId, fault))
    /\ UNCHANGED <<DocRest, job_documents>>

\* What a caller of the text extraction adapter gets
Extracted(wr, pdf_result) ==
    [wr EXCEPT !.pc = "done", !.raised = pdf_result.raised,
               !.extracted = pdf_result.success,
               !.markers = pdf_result.markers,
               !.result = [NoResult EXCEPT !.success = pdf_result.success,
                                           !.error = pdf_result.error]]

\* A direct call of PDFService.extract_text_from_bytes
ExtractTextFromBytes(w) ==
    /\ workers[w].pc = "idle"
    /\ \E pdf_bytes \in PdfBytes, use_advanced \in BOOLEAN :
         workers' = [workers EXCEPT ![w] =
             Extracted([IdleWorker EXCEPT !.op = "extract_text_from_bytes",
                                          !.fault = pdf_bytes,
                                          !.generate_embeddings = use_advanced],
                       extract_text_from_bytes(pdf, pdf_bytes, use_advanced))]
    /\ UNCHANGED <<DocRest, job_documents, processed_documents, store_faulted>>

\* The call is over and its result has been handed to the caller.
Return(w) ==
    /\ workers[w].pc = "done"
    /\ workers' = [workers EXCEPT ![w] = IdleWorker]
    /\ UNCHANGED <<DocRest, job_documents, processed_documents, store_faulted>>

\* The service configurations: no rag_service attached, one without an
\* embedding model, one with it; any of the two PDF libraries installed or
\* not; source documents with any content.
DocInit ==
    /\ rag \in {[use_mercer |-> FALSE, mercer_service |-> FALSE,
                 embedding_model |-> b, collection |-> b] : b \in BOOLEAN}
    /\ mercer = [HAS_MERCER_LIB |-> FALSE, job_matcher |-> FALSE]
    /\ backend = [where_by_field |-> TRUE]
    /\ index = <<>>
    /\ indexed_ok = {}
    /\ pc = "idle"
    /\ last = NoCall
    /\ pdf \in [HAS_PYPDF2 : BOOLEAN, HAS_PDFPLUMBER : BOOLEAN]
    /\ docsvc \in {s \in [rag_service : BOOLEAN] : rag.embedding_model => s.rag_service}
    /\ job_documents \in {[d \in DocIds |-> SourceDocument(d, c[d])] :
                             c \in {f \in [DocIds -> PdfBytes \cup {None}] :
                                       \A d \in DocIds : f[d] \in Contents(d)}}
    /\ DocumentsAtRest
    /\ app = AppAtStart(FALSE, FALSE)

DocNext ==
    \E w \in Workers :
        \/ ProcessDocument(w)
        \/ UpdateOne(w)
        \/ ProcessAllDocuments(w)
        \/ BatchItem(w)
        \/ ExtractTextFromBytes(w)
        \/ Return(w)

DocSpec == DocInit /\ [][DocNext]_vars


\* ----------------------------------------------------------------------
\* Properties
\* ----------------------------------------------------------------------
Returned(op) == pc = "returned" /\ last.op = op

IsList(l) == DOMAIN l = 1..Len(l)

\* The taxonomy tier is enabled for the call that has returned.
TaxEnabled ==
    /\ IF last.use_mercer # None THEN last.use_mercer = "True" ELSE rag.use_mercer
    /\ rag.mercer_service

WellFormed(matches) == \A i \in 1..Len(matches) : matches[i].match_score # NoneNum

\* The taxonomy tier is disabled, raised, or returned nothing.
TaxFailed ==
    \/ ~TaxEnabled
    \/ last.tax.matches = <<>>
    \/ ~WellFormed(last.tax.matches)

SemAvailable == rag.collection /\ rag.embedding_model

SemanticCalls == {"semantic", "embedding", "index_query"}

\* C1: when the taxonomy tier is enabled and returns a non-empty result,
\* the call returns that result (cut to limit) and makes no call of the
\* semantic tier (search_similar_jobs, embedding, index query) nor of the
\* heuristic scorer.
C1_TaxonomyShortCircuits ==
    (/\ Returned("match_candidate_to_jobs")
     /\ TaxEnabled
     /\ last.tax.matches # <<>>
     /\ WellFormed(last.tax.matches))
    => /\ ~last.raised
       /\ last.results = Take(last.tax.matches, last.limit)
       /\ Range(last.calls) \cap (SemanticCalls \cup {"heuristic"}) = {}

\* A call whose taxonomy result was longer than limit, with a semantic
\* tier that was configured and had rows to offer.
C1_Witness ==
    /\ Returned("match_candidate_to_jobs")
    /\ TaxEnabled
    /\ WellFormed(last.tax.matches)
    /\ last.limit >= 1
    /\ Len(last.tax.matches) > last.limit
    /\ SemAvailable
    /\ index # <<>>

HeuristicInsideTaxonomy ==
    /\ TaxEnabled
    /\ \/ ~mercer.HAS_MERCER_LIB
       \/ ~mercer.job_matcher
       \/ last.outcome.kind # "list"

PublishedJobAvailable ==
    \E k \in 1..Len(JobStore) :
        /\ JobStore[k].status = "published"
        /\ last.job_ids = {} \/ JobStore[k].id \in last.job_ids

\* C3: with no taxonomy service, no embedding model and no index, a call
\* with at least one published job to score returns a non-empty list of
\* heuristic results.
C3_UnconfiguredStillMatches ==
    (/\ Returned("match_candidate_to_jobs")
     /\ ~mercer.job_matcher
     /\ ~rag.embedding_model
     /\ ~rag.collection
     /\ last.limit >= 1
     /\ PublishedJobAvailable)
    => /\ ~last.raised
       /\ last.results # <<>>

\* C4: match_candidate_to_jobs and search_similar_jobs return a list and
\* propagate no exception, whatever the taxonomy service, the embedding
\* model and the index do.
C4_NeverPropagates ==
    /\ Returned("match_candidate_to_jobs") => (~last.raised /\ IsList(last.results))
    /\ Returned("search_similar_jobs") => (~last.raised /\ IsList(last.matches))

\* The index query of a search has failed.
C4_Witness ==
    /\ Returned("search_similar_jobs")
    /\ last.fault = "query"
    /\ last.limit >= 1
    /\ "index_query" \in Range(last.calls)
    /\ index # <<>>
    /\ last.matches = <<>>

\* C5: match_candidate_to_jobs returns at most limit results.
C5_AtMostLimit ==
    Returned("match_candidate_to_jobs") => Len(last.results) <= last.limit

\* The semantic tier retrieved more hits than limit and limit of them
\* are returned.
C5_Witness ==
    /\ Returned("match_candidate_to_jobs")
    /\ last.sem.ran
    /\ last.limit >= 1
    /\ Len(last.sem.matches) > last.limit
    /\ Len(last.results) = last.limit

\* The list a tier was given, as job ids in input order.
TierInput ==
    IF last.sem.ran
    THEN [i \in 1..Len(last.sem.matches) |-> last.sem.matches[i].job_id]
    ELSE [i \in 1..Len(last.tax.matches) |-> last.tax.matches[i].job_id]

InputPos(job_id) == CHOOSE k \in 1..Len(TierInput) : TierInput[k] = job_id

C7_SearchOrdered ==
    Returned("search_similar_jobs")
    => /\ \A i, j \in 1..Len(last.matches) :
             i < j => last.matches[i].score >= last.matches[j].score
       /\ \A i \in 1..Len(last.matches) :
             \E k \in 1..Len(index) :
                /\ index[k].id = last.matches[i].job_id
                /\ last.matches[i].score
                      = 1000 - Distance(Encode(last.query), index[k].embedding)

\* A filtered search returned two hits with different similarities.
C7_Witness ==
    /\ Returned("search_similar_jobs")
    /\ last.filters # {}
    /\ Len(last.matches) >= 2
    /\ last.matches[1].score > last.matches[2].score

RowsWithId(job_id) == {k \in 1..Len(index) : index[k].id = job_id}

\* C8: the index holds at most one row per job id, and exactly one for
\* every job id that index_job has indexed successfully.
C8_OneRowPerIndexedJob ==
    \A j \in JobIds :
        /\ Cardinality(RowsWithId(j)) <= 1
        /\ j \in indexed_ok => Cardinality(RowsWithId(j)) = 1

\* index_job was called for an id that was already indexed, with content
\* different from the stored one.
C8_Witness ==
    /\ Returned("index_job")
    /\ last.fault \in {"none", "dup_raises"}
    /\ _create_searchable_text(last.job_data) # <<>>
    /\ \E k \in 1..Len(last.rows_before) :
          /\ last.rows_before[k].id = last.job_id
          /\ last.rows_before[k].document # _create_searchable_text(last.job_data)

\* C9: index_job is an upsert: with the model and the index working, it
\* returns True and the row stored for the id afterwards carries the
\* vector, text and attributes of the job_data just given.
C9_Upsert ==
    (/\ Returned("index_job")
     /\ SemAvailable
     /\ last.fault = "none"
     /\ _create_searchable_text(last.job_data) # <<>>)
    => /\ last.ok
       /\ \E k \in 1..Len(index) :
             /\ index[k].id = last.job_id
             /\ index[k].document = _create_searchable_text(last.job_data)
             /\ index[k].embedding = Encode(_create_searchable_text(last.job_data))
             /\ index[k].metadata.status = last.job_data.status
             /\ index[k].metadata.title = last.job_data.title

\* C10: with no embedding model, generate_embedding returns None, index_job
\* returns False and leaves the index as it was, search_similar_jobs
\* returns the empty list, and none of them raises.
C10_NoEmbeddingModel ==
    ~rag.embedding_model
    => /\ Returned("generate_embedding") => (last.vec = NoneNum /\ ~last.raised)
       /\ Returned("index_job")
            => (~last.ok /\ ~last.raised /\ index = last.rows_before)
       /\ Returned("search_similar_jobs") => (last.matches = <<>> /\ ~last.raised)

\* index_job was called with text to embed while no model is loaded.
C10_Witness ==
    /\ ~rag.embedding_model
    /\ Returned("index_job")
    /\ _create_searchable_text(last.job_data) # <<>>

\* ----------------------------------------------------------------------
\* The scorers on their own: the heuristic scorer of _fallback_match, the
\* stub matcher DummyJobMatcher (apps/ai/libs/dummy_mercer.py) and the
\* adapter in a build without the external library.
\* ----------------------------------------------------------------------
\* match_details of a heuristic match: "skill_match" (overlap/total),
\* "level_match" and "title_relevance"
match_details(candidate_profile, job) ==
    [skill_match |-> skill_score(LowerSet(candidate_profile.skills),
                                 LowerSet(job.required_skills)),
     level_match |-> level_score(Lower(job.level),
                                 candidate_profile.years_of_experience),
     title_relevance |-> title_score(Words(Lower(candidate_profile.desired_role)),
                                     Words(Lower(job.title)))]

_convert_candidate_to_mercer_format(candidate) ==
    [skills |-> candidate.skills,
     experience |-> [years |-> candidate.years_of_experience],
     role |-> candidate.desired_role]

\* The experience adjustment of DummyJobMatcher.match, in tenths
level_bonus(job_level, candidate_exp) ==
    IF job_level = "senior" /\ candidate_exp >= 5 THEN 2
    ELSE IF job_level = "mid" /\ 2 <= candidate_exp /\ candidate_exp < 5 THEN 1
    ELSE IF job_level = "entry" /\ candidate_exp < 2 THEN 1
    ELSE 0

\* round(min(1.0, overlap/total + bonus), 3)
CappedScore(skill, bonus) ==
    IF 10 * skill[1] + bonus * skill[2] >= 10 * skill[2]
    THEN 1000
    ELSE RoundMilli(10 * skill[1] + bonus * skill[2], 10 * skill[2])

dummy_score(candidate, job) ==
    CappedScore(skill_score(LowerSet(candidate.skills), LowerSet(job.required_skills)),
                level_bonus(Lower(job.level), candidate.experience.years))

\* DummyJobMatcher.match(candidate, jobs, top_n)
dummy_match(candidate, jobs, top_n) ==
    Take(SortDesc([i \in 1..Len(jobs) |->
                      [job_id |-> jobs[i].id, score |-> dummy_score(candidate, jobs[i])]],
                  "score"), top_n)

ScoredSkills == {<<>>, <<"Python", "Docker">>, <<"python", "docker">>, <<"SQL">>,
                 <<"Python", "Docker", "AWS", "SQL">>}
ScoredYears == {0, 1, 2, 4, 5, 6}
ScoredRoles == {"", "Data Analyst", "Backend Engineer"}
ScoredCandidates ==
    [skills : ScoredSkills, years_of_experience : ScoredYears, desired_role : ScoredRoles]

\* The jobs handed to the scorers: the stored ones and the other job data
ScoredJobs ==
    {JobStore[j] : j \in JobIds} \cup {StoredJob(NumJobs + 1, d) : d \in JobData}

\* One pass of the loop body of _fallback_match
HeuristicScore ==
    /\ pc = "idle"
    /\ \E candidate_profile \in ScoredCandidates, job \in ScoredJobs :
         last' = [op |-> "heuristic_score", candidate_profile |-> candidate_profile,
                  job |-> job,
                  match_details |-> match_details(candidate_profile, job),
                  match_score |-> heuristic_score(candidate_profile, job)]
    /\ pc' = "returned"
    /\ UNCHANGED <<rag, mercer, backend, index, indexed_ok, docvars>>

\* DummyJobMatcher.match on one job
DummyMatch ==
    /\ pc = "idle"
    /\ \E candidate_profile \in ScoredCandidates, job \in ScoredJobs :
         last' = [op |-> "DummyJobMatcher.match", candidate_profile |-> candidate_profile,
                  job |-> job,
                  results |-> dummy_match(
                                  _convert_candidate_to_mercer_format(candidate_profile),
                                  <<job>>, 1)]
    /\ pc' = "returned"
    /\ UNCHANGED <<rag, mercer, backend, index, indexed_ok, docvars>>

\* MercerJobLibraryService.match_candidate_to_jobs called on its own
AdapterMatch ==
    /\ pc = "idle"
    /\ \E candidate_profile \in ScoredCandidates, job_ids \in JobIdFilters,
          limit \in Limits :
         last' = [op |-> "mercer_match_candidate_to_jobs",
                  candidate_profile |-> candidate_profile, job_ids |-> job_ids,
                  limit |-> limit,
                  results |-> mercer_match_candidate_to_jobs(mercer, candidate_profile,
                                  job_ids, limit, NoOutcome).results]
    /\ pc' = "returned"
    /\ UNCHANGED <<rag, mercer, backend, index, indexed_ok, docvars>>

\* A build without the external library: HAS_MERCER_LIB is False and the
\* adapter has no job_matcher.
ScoreInit ==
    /\ rag = [use_mercer |-> TRUE, mercer_service |-> TRUE,
              embedding_model |-> FALSE, collection |-> FALSE]
    /\ mercer = [HAS_MERCER_LIB |-> FALSE, job_matcher |-> FALSE]
    /\ backend = [where_by_field |-> TRUE]
    /\ index = <<>>
    /\ indexed_ok = {}
    /\ pc = "idle"
    /\ last = NoCall
    /\ pdf = [HAS_PYPDF2 |-> TRUE, HAS_PDFPLUMBER |-> TRUE]
    /\ docsvc = [rag_service |-> FALSE]
    /\ job_documents = [d \in DocIds |-> SourceDocument(d, "text_pdf")]
    /\ DocumentsAtRest
    /\ app = AppAtStart(FALSE, FALSE)

ScoreNext ==
    \/ HeuristicScore
    \/ DummyMatch
    \/ AdapterMatch
    \/ Respond

ScoreSpec == ScoreInit /\ [][ScoreNext]_vars

\* ----------------------------------------------------------------------
\* Job description generation (RAGService.generate_job_description) and
\* the life cycle of the RAGService objects of one server process
\* ----------------------------------------------------------------------
\* A key of the requirements dictionary: present with None (what
\* request.dict() holds for an optional field the client left out), or
\* present with a value.
Null(default) == [kind |-> "null", value |-> default]
Given(value) == [kind |-> "given", value |-> value]

\* requirements.get(key, default): the default only when the key is absent
dict_get(field, default) ==
    IF field.kind = "absent" THEN [null |-> FALSE, value |-> default]
    ELSE [null |-> field.kind = "null", value |-> field.value]

\* A value inside an f-string
Formatted(got) == IF got.null THEN "None" ELSE got.value

NoDescription ==
    [generated_by |-> "", title |-> "", department |-> "", level |-> "",
     skills |-> <<>>, responsibilities |-> <<>>]

\* The text the LLM returns: not a function of the model's state
LlmText == [NoDescription EXCEPT !.generated_by = "llm"]

\* The filled template.  ', '.join(...) over the skills and the loop over
\* the responsibilities raise TypeError on None.
TemplateText(title, department, level, skills, responsibilities) ==
    IF skills.null \/ responsibilities.null
    THEN [raised |-> TRUE, description |-> NoDescription]
    ELSE [raised |-> FALSE,
          description |-> [generated_by |-> "template", title |-> Formatted(title),
                           department |-> Formatted(department),
                           level |-> Formatted(level), skills |-> skills.value,
                           responsibilities |-> responsibilities.value]]

_generate_from_template(requirements) ==
    TemplateText(dict_get(requirements.title, "Software Engineer"),
                 dict_get(requirements.department, "Engineering"),
                 dict_get(requirements.level, "Mid-level"),
                 dict_get(requirements.required_skills, <<>>),
                 dict_get(requirements.responsibilities, <<"Perform assigned tasks">>))

\* try: build the prompt (the join over the skills is inside the try) and
\* call the LLM; except Exception: return the template text.
_generate_with_llm(requirements, llm) ==
    IF dict_get(requirements.required_skills, <<>>).null \/ llm = "raises"
    THEN _generate_from_template(requirements)
    ELSE [raised |-> FALSE, description |-> LlmText]

generate_job_description(has_openai, llm_api_key, requirements, use_llm, llm) ==
    IF use_llm /\ has_openai /\ llm_api_key
    THEN _generate_with_llm(requirements, llm)
    ELSE _generate_from_template(requirements)

\* RAGService(): one more object, with its own embedding model and index
\* client
RAGService(p) == [p EXCEPT !.constructed = @ + 1]

\* apps/ai/routes/rag_routes.py: get_rag_service
get_rag_service(p) ==
    IF p._rag_service = 0
    THEN [RAGService(p) EXCEPT !._rag_service = p.constructed + 1]
    ELSE p

\* apps/routes/document_routes.py: get_rag_service
document_get_rag_service(p) ==
    IF p._rag_service_instance = 0
    THEN [RAGService(p) EXCEPT !._rag_service_instance = p.constructed + 1]
    ELSE p

\* JobService.get_job and ProjectService.get_project: with
\* include_documents a new RAGService is constructed for the request.
get_with_documents(p, include_documents) ==
    IF include_documents THEN RAGService(p) ELSE p

\* The requirements a client can send to the route: request.dict() holds
\* every key, with None for the optional fields left out.
RequestedRequirements ==
    [title : {Given("Data Engineer")},
     department : {Null(""), Given("Data")},
     level : {Null(""), Given("senior")},
     required_skills : {Null(<<>>), Given(<<>>), Given(<<"Python", "SQL">>)},
     responsibilities : {Null(<<>>), Given(<<"Build pipelines">>)}]

\* JobDescriptionResponse(description, generated_by), or the HTTPException
\* of the route's except clause
DescriptionResponse(r, use_llm) ==
    IF r.raised THEN [status_code |-> 500, generated_by |-> ""]
    ELSE [status_code |-> 200, generated_by |-> IF use_llm THEN "llm" ELSE "template"]

DescriptionCall(requirements, use_llm, llm, r) ==
    [op |-> "generate_job_description", requirements |-> requirements,
     use_llm |-> use_llm, llm |-> llm, raised |-> r.raised,
     description |-> r.description, response |-> DescriptionResponse(r, use_llm)]

\* POST /api/v1/ai/jobs/generate-description: the dependency
\* get_rag_service, then the call of generate_job_description.
GenerateJobDescription ==
    /\ pc = "idle"
    /\ get_rag_service(app).constructed <= MaxInstances
    /\ app' = get_rag_service(app)
    /\ \E requirements \in RequestedRequirements, use_llm \in BOOLEAN,
          llm \in {"answers", "raises"} :
         last' = DescriptionCall(requirements, use_llm, llm,
                     generate_job_description(app.HAS_OPENAI, app.OPENAI_API_KEY,
                                              requirements, use_llm, llm))
    /\ pc' = "returned"
    /\ UNCHANGED <<rag, mercer, backend, index, indexed_ok, pdf, docsvc,
                   job_documents, processed_documents, workers, store_faulted>>

\* A request to a route of /api/v1/documents: the dependency
\* get_document_service resolves document_routes.get_rag_service.
DocumentRequest ==
    /\ pc = "idle"
    /\ document_get_rag_service(app).constructed <= MaxInstances
    /\ app' = document_get_rag_service(app)
    /\ last' = [op |-> "document_request",
                rag_service |-> document_get_rag_service(app)._rag_service_instance]
    /\ pc' = "returned"
    /\ UNCHANGED <<rag, mercer, backend, index, indexed_ok, pdf, docsvc,
                   job_documents, processed_documents, workers, store_faulted>>

\* JobService.get_job(job_id, include_documents)
GetJob ==
    /\ pc = "idle"
    /\ \E include_documents \in BOOLEAN :
         /\ get_with_documents(app, include_documents).constructed <= MaxInstances
         /\ app' = get_with_documents(app, include_documents)
         /\ last' = [op |-> "get_job", include_documents |-> include_documents,
                     rag_service |-> IF include_documents THEN app.constructed + 1 ELSE 0]
    /\ pc' = "returned"
    /\ UNCHANGED <<rag, mercer, backend, index, indexed_ok, pdf, docsvc,
                   job_documents, processed_documents, workers, store_faulted>>

\* ProjectService.get_project(project_id, include_documents)
GetProject ==
    /\ pc = "idle"
    /\ \E include_documents \in BOOLEAN :
         /\ get_with_documents(app, include_documents).constructed <= MaxInstances
         /\ app' = get_with_documents(app, include_documents)
         /\ last' = [op |-> "get_project", include_documents |-> include_documents,
                     rag_service |-> IF include_documents THEN app.constructed + 1 ELSE 0]
    /\ pc' = "returned"
    /\ UNCHANGED <<rag, mercer, backend, index, indexed_ok, pdf, docsvc,
                   job_documents, processed_documents, workers, store_faulted>>

\* A server process before its first request, with or without the openai
\* package and the API key.
AppInit ==
    /\ rag = [use_mercer |-> FALSE, mercer_service |-> FALSE,
              embedding_model |-> TRUE, collection |-> TRUE]
    /\ mercer = [HAS_MERCER_LIB |-> FALSE, job_matcher |-> FALSE]
    /\ backend = [where_by_field |-> TRUE]
    /\ index = <<>>
    /\ indexed_ok = {}
    /\ pc = "idle"
    /\ last = NoCall
    /\ pdf = [HAS_PYPDF2 |-> TRUE, HAS_PDFPLUMBER |-> TRUE]
    /\ docsvc = [rag_service |-> TRUE]
    /\ job_documents = [d \in DocIds |-> SourceDocument(d, "text_pdf")]
    /\ processed_documents = <<>>
    /\ workers = [w \in Workers |-> IdleWorker]
    /\ store_faulted = FALSE
    /\ app \in {AppAtStart(has_openai, api_key) :
                   has_openai \in BOOLEAN, api_key \in BOOLEAN}

AppNext ==
    \/ GenerateJobDescription
    \/ DocumentRequest
    \/ GetJob
    \/ GetProject
    \/ Respond

AppSpec == AppInit /\ [][AppNext]_vars

\* ----------------------------------------------------------------------
\* Properties of the document service (under DocSpec)
\* ----------------------------------------------------------------------
\* Worker w has finished a call of op and holds its result.
Done(w, op) == workers[w].pc = "done" /\ workers[w].op = op

\* The ProcessedDocuments that refer to source document d, oldest first
RecordsOf(d) ==
    SelectSeq(processed_documents, LAMBDA r : r.original_document_id = d)

\* The bytes of source document d are there and no text comes out of them:
\* they are no PDF, or no PDF library is installed.
ExtractionFails(d) ==
    /\ job_documents[d].content # None
    /\ \/ job_documents[d].content = "corrupt"
       \/ ~pdf.HAS_PYPDF2 /\ ~pdf.HAS_PDFPLUMBER

\* C11: process_document on a source document whose text extraction fails
\* returns success = false, no ProcessedDocument refers to the document,
\* and its processed flag and back-reference are as they were.
C11_ExtractionFailure ==
    \A w \in Workers :
        (/\ Done(w, "process_document")
         /\ workers[w].document_id \in DocIds
         /\ workers[w].fault # "find"
         /\ ExtractionFails(workers[w].document_id))
        => /\ ~workers[w].result.success
           /\ workers[w].result.error \in {"PDF extraction failed", "exception"}
           /\ workers[w].result.processed_document_id = NoneNum
           /\ RecordsOf(workers[w].document_id) = <<>>
           /\ ~job_documents[workers[w].document_id].processed
           /\ job_documents[workers[w].document_id].processed_document_id = NoneNum

C11_Witness ==
    \E w \in Workers :
        /\ Done(w, "process_document")
        /\ workers[w].document_id \in DocIds
        /\ job_documents[workers[w].document_id].content = "corrupt"
        /\ pdf.HAS_PDFPLUMBER
        /\ workers[w].result.error = "PDF extraction failed"

\* The number of documents of a finished batch whose process_document call
\* failed
FailedCalls(batch) ==
    Cardinality({i \in 1..Len(batch.returned) : ~batch.returned[i].result.success})

\* C12: process_all_documents over N selected documents of which M fail
\* returns total = N, processed + failed = N, failed = M and a results list
\* of length N with one entry per selected document.
C12_BatchSummary ==
    \A w \in Workers :
        (Done(w, "process_all_documents") /\ workers[w].batch.success)
        => LET b == workers[w].batch
           IN  /\ b.total = Len(b.selected)
               /\ b.processed + b.failed = Len(b.selected)
               /\ b.failed = FailedCalls(b)
               /\ Len(b.returned) = Len(b.selected)
               /\ Len(b.results) = Len(b.selected)
               /\ \A i \in 1..Len(b.results) : b.results[i].document_id = b.selected[i]

C12_Witness ==
    \E w \in Workers :
        /\ Done(w, "process_all_documents")
        /\ workers[w].batch.total = 2
        /\ workers[w].batch.failed = 1
        /\ workers[w].batch.processed = 1

\* What process_document gives for document d on its own when the record
\* store works: success iff the document has bytes that can be extracted.
AloneSucceeds(d) ==
    job_documents[d].content # None /\ ~ExtractionFails(d)

\* C13: in process_all_documents a failure of one document does not keep
\* the remaining documents from being attempted, and each per-item entry
\* is the outcome process_document gives for that document alone.
C13_IndependentItems ==
    \A w \in Workers :
        workers[w].op = "process_all_documents" /\ workers[w].batch.success
        => LET b == workers[w].batch
           IN  /\ workers[w].pc = "done" => Len(b.returned) = Len(b.selected)
               /\ Len(b.results) = Len(b.returned)
               /\ \A i \in 1..Len(b.results) :
                     /\ b.results[i] = [document_id |-> b.selected[i],
                                        success |-> b.returned[i].result.success,
                                        error |-> b.returned[i].result.error]
                     /\ b.returned[i].result.success
                           = (AloneSucceeds(b.selected[i]) /\ ~b.returned[i].faulted)

C13_Witness ==
    \E w \in Workers :
        /\ Done(w, "process_all_documents")
        /\ Len(workers[w].batch.results) = 2
        /\ ~workers[w].batch.results[1].success
        /\ workers[w].batch.results[2].success

\* The embedding step of the call of worker w yields no embedding: no
\* service is attached, the service has no model, the model call fails,
\* the step raises, or there is no text to embed.
EmbeddingFails(w) ==
    /\ workers[w].generate_embeddings
    /\ \/ ~docsvc.rag_service
       \/ ~rag.embedding_model
       \/ workers[w].fault \in {"embed_raise", "encode"}
       \/ job_documents[workers[w].document_id].content = "image_pdf"

\* C14: when the text was extracted and the embedding step fails, the call
\* (if the record store works) returns success = true, a ProcessedDocument
\* without embedding is stored and the source document is marked processed.
C14_EmbeddingAbsorbed ==
    \A w \in Workers :
        (/\ Done(w, "process_document")
         /\ workers[w].extracted
         /\ ~workers[w].faulted
         /\ EmbeddingFails(w))
        => /\ workers[w].result.success
           /\ ~workers[w].result.has_embedding
           /\ \E i \in 1..Len(processed_documents) :
                 /\ processed_documents[i]._id = workers[w].result.processed_document_id
                 /\ processed_documents[i].original_document_id = workers[w].document_id
                 /\ processed_documents[i].embedding = NoneNum
                 /\ processed_documents[i].status = "processed"
           /\ job_documents[workers[w].document_id].processed

C14_Witness ==
    \E w \in Workers :
        /\ Done(w, "process_document")
        /\ workers[w].fault = "embed_raise"
        /\ rag.embedding_model
        /\ workers[w].result.success
        /\ ~workers[w].result.has_embedding

\* C15: every source document has at most one ProcessedDocument with
\* status "processed" that refers to it.
C15_AtMostOneProcessed ==
    \A d \in DocIds :
        Cardinality({i \in 1..Len(processed_documents) :
                        /\ processed_documents[i].original_document_id = d
                        /\ processed_documents[i].status = "processed"}) <= 1

\* C16: once every call has completed (and no operation of the record
\* store has failed), the processed_document_id of a source document is
\* the most recently created ProcessedDocument that refers to it.
C16_PointerIsLatest ==
    ((\A w \in Workers : workers[w].pc \in {"idle", "done"}) /\ ~store_faulted)
    => \A d \in DocIds :
          RecordsOf(d) # <<>>
          => job_documents[d].processed_document_id
                = RecordsOf(d)[Len(RecordsOf(d))]._id

\* C20: extract_text_from_bytes never raises; its caller gets a result
\* with success = true or with an error.
C20_NeverRaises ==
    \A w \in Workers :
        Done(w, "extract_text_from_bytes")
        => /\ ~workers[w].raised
           /\ workers[w].result.success \/ workers[w].result.error # ""

\* ----------------------------------------------------------------------
\* Properties of the scorers (under ScoreSpec)
\* ----------------------------------------------------------------------
\* m thousandths is the thousandth nearest to num/den.
NearestMilli(m, num, den) ==
    /\ 2 * (m * den - 1000 * num) <= den
    /\ 2 * (1000 * num - m * den) <= den

\* C17 as stated: for a candidate with skills {python, docker}, 6 years
\* and no desired role against a senior job requiring {python, docker,
\* aws}, the reported heuristic score is 0.8335.
C17_Example8335 ==
    (/\ Returned("heuristic_score")
     /\ last.candidate_profile = CandDev
     /\ last.job = JobStore[1])
    => 10 * last.match_score = 8335

\* C17, amended: the heuristic score is 0.5*skill_score + 0.3*level_score
\* + 0.2*title_score rounded to three places, which for the candidate and
\* the job of the example is 0.833.
C17_WeightedScore ==
    Returned("heuristic_score")
    => LET skill == last.match_details.skill_match
           lvl == last.match_details.level_match
           title == last.match_details.title_relevance
       IN  /\ NearestMilli(last.match_score,
                  50 * skill[1] * title[2] + 3 * lvl * skill[2] * title[2]
                      + 20 * title[1] * skill[2],
                  100 * skill[2] * title[2])
           /\ (last.candidate_profile = CandDev /\ last.job = JobStore[1])
                 => /\ skill = <<2, 3>>
                    /\ lvl = 10
                    /\ title = <<1, 1>>
                    /\ last.match_score = 833

C17_Witness ==
    /\ Returned("heuristic_score")
    /\ last.candidate_profile = CandDev
    /\ last.job = JobStore[1]
    /\ last.match_score = 833

\* The required skills of a job the candidate has, compared without case
MatchedRequired(candidate_profile, job) ==
    {r \in LowerSet(job.required_skills) :
        \E i \in 1..Len(candidate_profile.skills) :
            Lower(candidate_profile.skills[i]) = r}

\* C18: skill_score is the number of required skills the candidate has
\* (case-insensitively) over the number of required skills, with an empty
\* required-skill set counted as denominator 1 (score 0); it lies in [0,1].
C18_SkillScore ==
    Returned("heuristic_score")
    => LET skill == last.match_details.skill_match
           required == LowerSet(last.job.required_skills)
       IN  /\ skill[1] = Cardinality(MatchedRequired(last.candidate_profile, last.job))
           /\ skill[2] = IF required = {} THEN 1 ELSE Cardinality(required)
           /\ 0 <= skill[1] /\ skill[1] <= skill[2]
           /\ required = {} => skill = <<0, 1>>

C18_Witness ==
    /\ Returned("heuristic_score")
    /\ last.candidate_profile.skills = <<"python", "docker">>
    /\ last.job = JobStore[1]
    /\ last.match_details.skill_match = <<2, 3>>

\* C19: without the external library the scores the adapter returns are
\* the scores of the stub policy of DummyJobMatcher.match for the published
\* jobs asked for.
C19_StubPolicy ==
    (Returned("mercer_match_candidate_to_jobs") /\ ~mercer.HAS_MERCER_LIB)
    => LET jobs == JobsToScore(JobStore, last.job_ids)
           stub == dummy_match(_convert_candidate_to_mercer_format(last.candidate_profile),
                               jobs, last.limit)
       IN  /\ Len(last.results) = Len(stub)
           /\ \A i \in 1..Len(stub) :
                 /\ last.results[i].job_id = stub[i].job_id
                 /\ last.results[i].match_score = stub[i].score

\* ----------------------------------------------------------------------
\* Properties of the text extraction adapter (under DocSpec)
\* ----------------------------------------------------------------------
\* PyPDF2 is installed and reads these bytes.
BasicReads(pdf_bytes) == pdf.HAS_PYPDF2 /\ _extract_with_pypdf2(pdf_bytes).success

\* C21: whenever the basic extractor (PyPDF2) is installed and would read
\* the bytes, extract_text_from_bytes returns success, also when the
\* high-fidelity extractor (pdfplumber) was tried first and failed.
C21_FallsBackToBasic ==
    \A w \in Workers :
        (/\ Done(w, "extract_text_from_bytes")
         /\ BasicReads(workers[w].fault))
        => workers[w].extracted

\* ----------------------------------------------------------------------
\* Properties of semantic search and its endpoint (under Spec)
\* ----------------------------------------------------------------------
\* The search that has returned was given no filter on the status.
NoStatusFilter == \A f \in last.filters : f[1] # "status"

\* C22: search_similar_jobs called without a status filter returns no hit
\* for an indexed job whose status is not "published".
C22_DefaultExcludesUnpublished ==
    (Returned("search_similar_jobs") /\ NoStatusFilter)
    => \A i \in 1..Len(last.matches) :
           last.matches[i].metadata.status = "published"

\* C25: the semantic-search endpoint presents every hit the search found,
\* each with a score within [0,1], also a hit whose distance exceeds 1.
C25_PresentedWithinUnit ==
    Returned("semantic_job_search")
    => /\ last.response.status_code = 200
       /\ Len(last.response.body) = Len(last.matches)
       /\ \A i \in 1..Len(last.response.body) :
             /\ last.response.body[i].job_id = last.matches[i].job_id
             /\ last.response.body[i].score >= 0
             /\ last.response.body[i].score <= 1000

\* ----------------------------------------------------------------------
\* Further properties of the document service (under DocSpec)
\* ----------------------------------------------------------------------
\* The bytes of source document d are read with success and carry no text.
ExtractsNoText(d) ==
    /\ job_documents[d].content \in PdfBytes
    /\ extract_text_from_bytes(pdf, job_documents[d].content, TRUE).success
    /\ extract_text_from_bytes(pdf, job_documents[d].content, TRUE).content = <<>>

\* C24: process_document on a source document whose extraction succeeds
\* with empty text returns success = false with a reason, no
\* ProcessedDocument refers to the document and it is not marked processed.
C24_FailFastOnEmptyText ==
    \A w \in Workers :
        (/\ Done(w, "process_document")
         /\ workers[w].document_id \in DocIds
         /\ ExtractsNoText(workers[w].document_id))
        => /\ ~workers[w].result.success
           /\ workers[w].result.error # ""
           /\ RecordsOf(workers[w].document_id) = <<>>
           /\ ~job_documents[workers[w].document_id].processed

\* ----------------------------------------------------------------------
\* Further properties of the scorers (under ScoreSpec)
\* ----------------------------------------------------------------------
\* The level-fit thresholds of the stub matcher's bonus
LevelFits(level, experience) ==
    \/ level = "senior" /\ experience >= 5
    \/ level = "mid" /\ 2 <= experience /\ experience < 5
    \/ level = "entry" /\ experience < 2

\* C26 as stated: level_score is 1.0 exactly when the job has no level or
\* the experience meets the threshold of the stub's level bonus for the
\* job's level, and otherwise 0.6 (senior), 0.7 (mid), 0.8 (entry).
C26_BonusThresholds ==
    Returned("heuristic_score")
    => LET level == Lower(last.job.level)
           experience == last.candidate_profile.years_of_experience
       IN  last.match_details.level_match =
              IF level = "" \/ LevelFits(level, experience) THEN 10
              ELSE IF level = "senior" THEN 6
              ELSE IF level = "mid" THEN 7
              ELSE 8

\* C26: level_score is 0.6 exactly for a senior job and experience < 5,
\* 0.7 exactly for a mid job and experience < 2, 0.8 exactly for an entry
\* job and experience > 5, and 1.0 in every other case.
C26_LevelScore ==
    Returned("heuristic_score")
    => LET level == Lower(last.job.level)
           experience == last.candidate_profile.years_of_experience
           score == last.match_details.level_match
       IN  /\ score \in {6, 7, 8, 10}
           /\ score = 6 <=> (level = "senior" /\ experience < 5)
           /\ score = 7 <=> (level = "mid" /\ experience < 2)
           /\ score = 8 <=> (level = "entry" /\ experience > 5)

\* A mid job scored for a candidate with more than five years: no penalty.
C26_Witness ==
    /\ Returned("heuristic_score")
    /\ Lower(last.job.level) = "mid"
    /\ last.candidate_profile.years_of_experience >= 5
    /\ last.match_details.level_match = 10

\* ----------------------------------------------------------------------
\* Per-page failures of the text extraction adapter (under DocSpec)
\* ----------------------------------------------------------------------
\* extract_text() raises on one of the pages of these bytes.
HasFailingPage(pdf_bytes) ==
    \E i \in 1..Len(PdfPages(pdf_bytes)) : PdfPages(pdf_bytes)[i] = "raises"

\* One of the two extractors is applied to the bytes: pdfplumber when it
\* is asked for and installed, PyPDF2 otherwise when it is installed.
ExtractorApplied(use_advanced) ==
    (use_advanced /\ pdf.HAS_PDFPLUMBER) \/ pdf.HAS_PYPDF2

\* C27: with either extractor, when extracting one page raises the result
\* has success = true and its text carries a page marker for exactly the
\* pages that were extracted with text.
C27_PageFailureNonFatal ==
    \A w \in Workers :
        (/\ Done(w, "extract_text_from_bytes")
         /\ ExtractorApplied(workers[w].generate_embeddings)
         /\ HasFailingPage(workers[w].fault))
        => /\ workers[w].extracted
           /\ workers[w].markers = PageMarkers(PdfPages(workers[w].fault))

\* ----------------------------------------------------------------------
\* The job-id filter of the semantic tier (under Spec)
\* ----------------------------------------------------------------------
\* The hits retrieved from the index whose job id is in job_ids
WantedHits == KeepWanted(last.sem.matches, last.job_ids)

\* C28: when job_ids is supplied and the semantic tier answers, the result
\* consists of the min(limit, n) highest-scoring of the n retrieved hits
\* whose job id is in job_ids, and holds no job id outside job_ids.
C28_JobIdFilter ==
    (/\ Returned("match_candidate_to_jobs")
     /\ last.job_ids # {}
     /\ last.sem.ran)
    => /\ Len(last.results)
             = (IF Len(WantedHits) < last.limit THEN Len(WantedHits) ELSE last.limit)
       /\ \A i \in 1..Len(last.results) :
             /\ last.results[i].job_id \in last.job_ids
             /\ \A k \in 1..Len(WantedHits) :
                   \/ \E j \in 1..Len(last.results) :
                         last.results[j].job_id = WantedHits[k].job_id
                   \/ last.results[i].match_score >= WantedHits[k].score

\* ----------------------------------------------------------------------
\* The processed flag and the stored record (under DocSpec)
\* ----------------------------------------------------------------------
\* C30: in every state, a source document whose processed flag is true has
\* a processed_document_id that is the _id of a stored ProcessedDocument
\* whose original_document_id is that source document.
C30_FlaggedHasRecord ==
    \A d \in DocIds :
        job_documents[d].processed
        => \E k \in 1..Len(processed_documents) :
              /\ processed_documents[k]._id = job_documents[d].processed_document_id
              /\ processed_documents[k].original_document_id = d

\* One source document is flagged while another call stands between its
\* insert_one and its update_one, after a record-store operation has failed.
C30_Witness ==
    /\ \E d \in DocIds : job_documents[d].processed
    /\ \E w \in Workers : workers[w].pc = "update"
    /\ store_faulted

\* ----------------------------------------------------------------------
\* Properties of job description generation and of the life cycle of the
\* matching engine (under AppSpec)
\* ----------------------------------------------------------------------
\* The call that has returned took the template path, or fell back to it.
TemplatePath ==
    \/ ~last.use_llm
    \/ ~app.HAS_OPENAI
    \/ ~app.OPENAI_API_KEY
    \/ last.llm = "raises"

\* C23: generate_job_description never raises and returns a description;
\* whenever use_llm is false, the LLM is not configured or the LLM call
\* fails, the description is the template filled from the requirements.
C23_AlwaysDescribes ==
    Returned("generate_job_description")
    => /\ ~last.raised
       /\ last.description.generated_by \in {"llm", "template"}
       /\ TemplatePath
             => /\ last.description.generated_by = "template"
                /\ last.description = _generate_from_template(last.requirements).description

\* C29: over any sequence of requests of one process at most one
\* RAGService is constructed.
C29_ConstructedOnce == app.constructed <= 1

====
